---- MODULE Spec2Model ----
(***************************************************************************)
(* smart-up-cli: the interactive dependency updater.                       *)
(*                                                                         *)
(* Two revisions of runSmartUpdate live in the repository:                 *)
(*   src/index.ts      (program version 1.0.1, called Rev1 here)           *)
(*   src/src/index.ts  (program version 1.3.1, called Rev2 here)           *)
(* Both are modelled; the variable rev says which one a run executes.      *)
(*                                                                         *)
(* A string is a sequence of one-character strings, so that coercion and   *)
(* parsing work on characters as the semver library does.                  *)
(***************************************************************************)
EXTENDS Integers, Sequences, FiniteSets, TLC

\* ---------------------------------------------------------------- bounds
\* Longest raw version string enumerated character by character.
MaxLen == 3
\* Most names the resolver reports in one listing.
MaxReported == 3
\* Runs of the program executed one after the other in the same directory.
MaxRuns == 2

\* ------------------------------------------------------------ characters
Digits == {"0", "1", "2", "3", "4", "5", "6", "7", "8", "9"}

DigitVal(c) ==
  CASE c = "0" -> 0 [] c = "1" -> 1 [] c = "2" -> 2 [] c = "3" -> 3
    [] c = "4" -> 4 [] c = "5" -> 5 [] c = "6" -> 6 [] c = "7" -> 7
    [] c = "8" -> 8 [] c = "9" -> 9

DigitChar(n) ==
  CASE n = 0 -> "0" [] n = 1 -> "1" [] n = 2 -> "2" [] n = 3 -> "3"
    [] n = 4 -> "4" [] n = 5 -> "5" [] n = 6 -> "6" [] n = 7 -> "7"
    [] n = 8 -> "8" [] n = 9 -> "9"

IsDigit(c) == c \in Digits

\* Number.parseInt / +str of a run of decimal digits.
RECURSIVE NumVal(_)
NumVal(ds) ==
  IF ds = <<>> THEN 0
  ELSE 10 * NumVal(SubSeq(ds, 1, Len(ds) - 1)) + DigitVal(ds[Len(ds)])

\* String(n) of a non-negative integer.
RECURSIVE NumStr(_)
NumStr(n) ==
  IF n < 10 THEN <<DigitChar(n)>>
  ELSE NumStr(n \div 10) \o <<DigitChar(n % 10)>>

\* ------------------------------------------------------- semver (library)
\* "no SemVer": null in the source.
NoSemver == [null |-> TRUE]

\* index of the first digit of s, 0 when s holds none
FirstDigit(s) ==
  IF \E i \in 1..Len(s) : IsDigit(s[i])
  THEN CHOOSE i \in 1..Len(s) :
         IsDigit(s[i]) /\ \A j \in 1..(i - 1) : ~IsDigit(s[j])
  ELSE 0

\* last index of the run of digits that starts at i
RunEnd(s, i) ==
  CHOOSE j \in i..Len(s) :
    /\ \A k \in i..j : IsDigit(s[k])
    /\ (j = Len(s) \/ ~IsDigit(s[j + 1]))

\* s[i] is "." and a digit follows: the optional group (?:\.(\d{1,16}))
DotNumberAt(s, i) == i + 1 <= Len(s) /\ s[i] = "." /\ IsDigit(s[i + 1])

\* A numeric identifier of a full version: 0|[1-9]\d*  (no leading zero).
NumericIdentifier(ds) == Len(ds) >= 1 /\ (Len(ds) = 1 \/ ds[1] # "0")

\* The digit runs the COERCE pattern captures in s from the first digit at
\* i1: major, then minor and patch when the optional groups match (<<>> when
\* they do not).
MatchAfterMinor(s, major, minor, e2) ==
  [major |-> major, minor |-> minor,
   patch |-> IF DotNumberAt(s, e2 + 1)
             THEN SubSeq(s, e2 + 2, RunEnd(s, e2 + 2)) ELSE <<>>]

MatchMinor(s, major, e1, e2) ==
  MatchAfterMinor(s, major, SubSeq(s, e1 + 2, e2), e2)

MatchAfterMajor(s, i1, e1) ==
  IF DotNumberAt(s, e1 + 1)
  THEN MatchMinor(s, SubSeq(s, i1, e1), e1, RunEnd(s, e1 + 2))
  ELSE [major |-> SubSeq(s, i1, e1), minor |-> <<>>, patch |-> <<>>]

MatchFrom(s, i1) == MatchAfterMajor(s, i1, RunEnd(s, i1))

CoerceMatch(s) == MatchFrom(s, FirstDigit(s))

\* semver.parse of the string major.minor.patch built from three digit runs:
\* a SemVer without pre-release, or null when an identifier is not numeric.
ParseTriple(ma, mi, pa) ==
  IF NumericIdentifier(ma) /\ NumericIdentifier(mi) /\ NumericIdentifier(pa)
  THEN [major |-> NumVal(ma), minor |-> NumVal(mi), patch |-> NumVal(pa),
        prerelease |-> <<>>]
  ELSE NoSemver

\* match[3] || '0'
OrZero(ds) == IF ds = <<>> THEN <<"0">> ELSE ds

CoerceParsed(m) == ParseTriple(m.major, OrZero(m.minor), OrZero(m.patch))

\* semver.coerce(version): the first MAJOR[.MINOR[.PATCH]] found in the
\* string, missing parts 0, everything around it (range operators,
\* pre-release and build suffixes) dropped; null when there is no digit.
coerce(s) ==
  IF FirstDigit(s) = 0 THEN NoSemver ELSE CoerceParsed(CoerceMatch(s))

\* SemVer.version: the canonical string of a SemVer.
version(v) ==
  NumStr(v.major) \o <<".">> \o NumStr(v.minor) \o <<".">> \o NumStr(v.patch)
    \o (IF v.prerelease = <<>> THEN <<>> ELSE <<"-">> \o v.prerelease)

\* semver.parse of a canonical version string MAJOR.MINOR.PATCH[-PRE].
WithPrerelease(v, pre) ==
  IF v = NoSemver THEN NoSemver ELSE [v EXCEPT !.prerelease = pre]

ParseTail(s, m, e) ==
  IF /\ m.minor # <<>> /\ m.patch # <<>>
     /\ (e = Len(s) \/ (e + 2 <= Len(s) /\ s[e + 1] = "-"))
  THEN WithPrerelease(ParseTriple(m.major, m.minor, m.patch),
                      SubSeq(s, e + 2, Len(s)))
  ELSE NoSemver

ParseMatched(s, m) ==
  ParseTail(s, m, Len(m.major) + Len(m.minor) + Len(m.patch) + 2)

parse(s) ==
  IF FirstDigit(s) = 1 THEN ParseMatched(s, CoerceMatch(s)) ELSE NoSemver

\* compare(a, b) < 0
SemverLess(a, b) ==
  \/ a.major < b.major
  \/ a.major = b.major /\ a.minor < b.minor
  \/ a.major = b.major /\ a.minor = b.minor /\ a.patch < b.patch
  \/ /\ a.major = b.major /\ a.minor = b.minor /\ a.patch = b.patch
     /\ a.prerelease # <<>> /\ b.prerelease = <<>>

\* "pre" + part when the higher version is a pre-release
Prefixed(pre, part) ==
  IF ~pre THEN part
  ELSE CASE part = "major" -> "premajor"
         [] part = "minor" -> "preminor"
         [] part = "patch" -> "prepatch"

DiffParsed(v1, v2, pre) ==
  IF v1 = v2 THEN "null"
  ELSE IF v1.major # v2.major THEN Prefixed(pre, "major")
  ELSE IF v1.minor # v2.minor THEN Prefixed(pre, "minor")
  ELSE IF v1.patch # v2.patch THEN Prefixed(pre, "patch")
  ELSE "prerelease"

HigherIsPrerelease(v1, v2) ==
  IF SemverLess(v1, v2) THEN v2.prerelease # <<>> ELSE v1.prerelease # <<>>

DiffOf(v1, v2) == DiffParsed(v1, v2, HigherIsPrerelease(v1, v2))

\* semver.diff(version1, version2): null when equal, else the first
\* component that differs, prefixed "pre" when the higher one is a
\* pre-release.
diff(s1, s2) == DiffOf(parse(s1), parse(s2))

\* ------------------------------------------------------------ the inputs
Rev1 == "1.0.1"
Rev2 == "1.3.1"
Revs == {Rev1, Rev2}

Names == {"a", "b", "c"}

\* undefined (a key that is not there) and the sentinel current version
Undefined == <<"undefined">>
Sentinel == <<"0", ".", "0", ".", "0">>

NoFile == [missing |-> TRUE]

Sections == {"dependencies", "devDependencies", "optionalDependencies"}

\* The range each name is declared with in the manifests of the runs: a caret
\* range, a pre-release pin and a range no version can be read from.
DeclaredRange(n) ==
  CASE n = "a" -> <<"^", "1", ".", "2", ".", "0">>
    [] n = "b" -> <<"1", ".", "2", ".", "1", "-", "0">>
    [] n = "c" -> <<"*">>

\* Where a manifest of the runs may declare each name.
DeclaredIn(n) ==
  CASE n = "a" -> {"dependencies"}
    [] n = "b" -> {"dependencies", "devDependencies"}
    [] n = "c" -> {"devDependencies", "optionalDependencies"}

\* package.json with every name declared in the section place[n].
ManifestOf(place) ==
  [sec \in Sections |->
     [n \in {m \in Names : place[m] = sec} |-> DeclaredRange(n)]]
    @@ [other |-> "scripts"]

Manifests == {ManifestOf(place) : place \in {f \in [Names -> Sections] :
                                             \A n \in Names : f[n] \in DeclaredIn(n)}}

\* The versions the registry may hold for each name: a patch, a minor and a
\* major step for "a"; the release of the pinned pre-release and a major
\* step for "b"; one version for "c", whose range no version is read from.
RunVersions(n) ==
  CASE n = "a" -> {<<"1", ".", "2", ".", "1">>, <<"1", ".", "3", ".", "0">>,
                   <<"2", ".", "0", ".", "0">>}
    [] n = "b" -> {<<"1", ".", "2", ".", "1">>, <<"2", ".", "0", ".", "0">>}
    [] n = "c" -> {<<"2", ".", "0", ".", "0">>}

\* a name with a version the registry may hold for it
Entries == UNION {{[name |-> n, version |-> v] : v \in RunVersions(n)} : n \in Names}

\* Sequences of at most n such entries.
RECURSIVE Listings(_)
Listings(n) ==
  IF n = 0 THEN {<<>>}
  ELSE LET shorter == Listings(n - 1)
       IN  shorter \cup
           {Append(l, e) : l \in {k \in shorter : Len(k) = n - 1}, e \in Entries}

Distinct(l) == \A i, j \in 1..Len(l) : l[i].name = l[j].name => i = j

Registries == {l \in Listings(MaxReported) : Distinct(l)}

\* ------------------------------------------------------------- the state
VARIABLES
  rev,           \* which revision of the program runs
  registry,      \* the registry: what the resolver lists for the first manifest
  manifest,      \* package.json on disk, or NoFile
  bak,           \* package.json.bak on disk, or NoFile
  options,       \* CliOptions of the current run
  pc,            \* where runSmartUpdate stands
  upgradedRaw,   \* the resolver's listing, in its key order
  updates,       \* the classified candidates (Rev1: the locals of the mapping)
  choices,       \* the choices handed to the checkbox prompt
  prompt,        \* the checkbox prompt: none, shown, answered, closed
  selected,      \* response.selected
  outcome,       \* how the run ended, "running" before
  errorReported, \* the critical-error box or spinner.fail was printed
  installs,      \* times the install subprocess was invoked in this run
  installExit,   \* its exit status: none, zero, nonzero
  upgradeCalls,  \* the filter strings of the ncu.run({upgrade: true}) calls of this run
  backupMade,    \* backupPackageJson returned true in this run
  backupTried,   \* backupPackageJson was called in this run
  restoreAnswer, \* the answer to the restore confirmation: none, yes, no
  startManifest, \* package.json as it was when the run started
  startBak,      \* package.json.bak as it was when the run started
  mutated,       \* package.json as ncu.run({upgrade: true}) left it, or NoFile
  runs           \* runs started so far

vars == <<rev, registry, manifest, bak, options, pc, upgradedRaw, updates,
          choices, prompt, selected, outcome, errorReported, installs,
          installExit, upgradeCalls, backupMade, backupTried, restoreAnswer,
          startManifest, startBak, mutated, runs>>

\* the files on disk
disk == <<manifest, bak>>
\* what a run computes before the prompt
catalogVars == <<upgradedRaw, updates, choices>>
\* what is fixed for a run
runVars == <<rev, registry, options, startManifest, startBak, runs>>

\* ---------------------------------------------------- reading the manifest
\* obj?.[key]: undefined for a key that is not there
Lookup(section, dep) ==
  IF dep \in DOMAIN section THEN section[dep] ELSE Undefined

\* a || b on strings and undefined: b when a is undefined or empty
OrElse(a, b) == IF a = Undefined \/ a = <<>> THEN b ELSE a

\* pkg.dependencies?.[dep] || pkg.devDependencies?.[dep] || '0.0.0'
currentVersionRaw(pkg, dep) ==
  OrElse(Lookup(pkg.dependencies, dep),
         OrElse(Lookup(pkg.devDependencies, dep), Sentinel))

\* ------------------------------------------------------- the classifier
\* Rev2: let type = 'other'; if (currentSemver && newSemver)
\*         type = semver.diff(currentSemver.version, newSemver.version) || 'other'
OrOther(d) == IF d = "null" THEN "other" ELSE d

\* faulty variant: the diff is taken as it comes: no "|| 'other'" for a null diff
ClassifyCoercedNoFallback(currentSemver, newSemver) ==
  IF currentSemver # NoSemver /\ newSemver # NoSemver
  THEN diff(version(currentSemver), version(newSemver))
  ELSE "other"

ClassifyCoerced(currentSemver, newSemver) ==
  IF currentSemver # NoSemver /\ newSemver # NoSemver
  THEN OrOther(diff(version(currentSemver), version(newSemver)))
  ELSE "other"

\* faulty variant: the raw strings are parsed as they are, pre-release kept
ClassifyUncoerced(cur, new) == ClassifyCoerced(parse(cur), parse(new))

Classify(cur, new) == ClassifyCoerced(coerce(cur), coerce(new))

\* Rev1: the early return when a version does not coerce ("unparsed"), else
\* diffType as semver.diff gives it, null included.
DiffTypeCoerced(currentSemver, newSemver) ==
  IF currentSemver = NoSemver \/ newSemver = NoSemver THEN "unparsed"
  ELSE diff(version(currentSemver), version(newSemver))

DiffType(cur, new) == DiffTypeCoerced(coerce(cur), coerce(new))

\* ---------------------------------------------------------- the catalog
\* depNames.map(dep => ({name, current, upgrade, type, ...}))
TypeOf(cur, new, r) ==
  IF r = Rev2 THEN Classify(cur, new) ELSE DiffType(cur, new)

UpdateRecord(dep, cur, new, r) ==
  [name |-> dep, current |-> cur, upgrade |-> new, type |-> TypeOf(cur, new, r)]

UpdateOf(pkg, entry, r) ==
  UpdateRecord(entry.name, currentVersionRaw(pkg, entry.name), entry.version, r)

\* faulty variant: only the names declared under dependencies or devDependencies
\* become candidates
MapUpdatesDeclaredOnly(pkg, listing, r) ==
  LET kept == SelectSeq(listing, LAMBDA e :
                e.name \in DOMAIN pkg.dependencies \cup DOMAIN pkg.devDependencies)
  IN  [i \in 1..Len(kept) |-> UpdateOf(pkg, kept[i], r)]

MapUpdates(pkg, listing, r) ==
  [i \in 1..Len(listing) |-> UpdateOf(pkg, listing[i], r)]

riskOrder == <<"patch", "minor", "premajor", "major", "other">>

\* riskOrder.indexOf(type): the 0-based position, -1 when absent
indexOf(type) ==
  IF \E i \in 1..Len(riskOrder) : riskOrder[i] = type
  THEN (CHOOSE i \in 1..Len(riskOrder) : riskOrder[i] = type) - 1
  ELSE -1

\* the comparator of updates.sort: negative when a goes before b
Compare(a, b) == indexOf(a.type) - indexOf(b.type)

\* faulty variant: an unstable sort: an element goes before its equals
RECURSIVE InsertBeforeEquals(_, _)
InsertBeforeEquals(sorted, e) ==
  IF sorted = <<>> THEN <<e>>
  ELSE IF Compare(sorted[Len(sorted)], e) < 0 THEN Append(sorted, e)
  ELSE Append(InsertBeforeEquals(SubSeq(sorted, 1, Len(sorted) - 1), e),
              sorted[Len(sorted)])

\* Array.prototype.sort is stable: insert each element after the last one
\* that does not compare greater.
RECURSIVE Insert(_, _)
Insert(sorted, e) ==
  IF sorted = <<>> THEN <<e>>
  ELSE IF Compare(sorted[Len(sorted)], e) <= 0 THEN Append(sorted, e)
  ELSE Append(Insert(SubSeq(sorted, 1, Len(sorted) - 1), e),
              sorted[Len(sorted)])

RECURSIVE SortFrom(_, _)
SortFrom(sorted, rest) ==
  IF rest = <<>> THEN sorted
  ELSE SortFrom(Insert(sorted, Head(rest)), Tail(rest))

Sort(seq) == SortFrom(<<>>, seq)

\* Rev2 sorts the candidates by risk; Rev1 keeps the resolver's order.
SortIn(mapped, r) == IF r = Rev2 THEN Sort(mapped) ELSE mapped

Catalog(pkg, listing, r) == SortIn(MapUpdates(pkg, listing, r), r)

\* faulty variant: only the major types are unchecked
CheckedUnlessMajor(type, r) == type \notin {"major", "premajor"}

\* the switch on the type: which candidates are pre-checked
Checked(type, r) ==
  IF r = Rev2
  THEN CASE type = "major" -> FALSE
         [] type = "premajor" -> FALSE
         [] type = "minor" -> TRUE
         [] type = "patch" -> TRUE
         [] OTHER -> FALSE
  ELSE CASE type = "unparsed" -> FALSE
         [] type = "major" -> FALSE
         [] type = "premajor" -> FALSE
         [] type = "minor" -> TRUE
         [] type = "patch" -> TRUE
         [] OTHER -> TRUE

ChoiceOf(update, r) ==
  [value |-> [name |-> update.name, version |-> update.upgrade],
   checked |-> Checked(update.type, r),
   short |-> update.name]

Choices(catalog, r) == [i \in 1..Len(catalog) |-> ChoiceOf(catalog[i], r)]

\* --------------------------------------------------------- the resolver
\* the section that declares dep, for the resolver: any of the three
DeclaredRangeOf(pkg, dep) ==
  OrElse(Lookup(pkg.dependencies, dep),
         OrElse(Lookup(pkg.devDependencies, dep),
                Lookup(pkg.optionalDependencies, dep)))

\* ncu.run({upgrade: false, jsonUpgraded: true}): the names the manifest
\* declares with something else than the registry's version, each with that
\* version, in the registry's order.
Listing(pkg, reg) ==
  SelectSeq(reg, LAMBDA e : DeclaredRangeOf(pkg, e.name) \notin {Undefined, e.version})

\* the pieces of a filter string between its commas and spaces
RECURSIVE PiecesFrom(_, _, _)
PiecesFrom(str, piece, found) ==
  IF str = <<>> THEN found \cup (IF piece = <<>> THEN {} ELSE {piece})
  ELSE IF Head(str) \in {",", " "}
  THEN PiecesFrom(Tail(str), <<>>, found \cup (IF piece = <<>> THEN {} ELSE {piece}))
  ELSE PiecesFrom(Tail(str), Append(piece, Head(str)), found)

\* the names the resolver lets through a filter string: those spelled by
\* one of its pieces (the names here are one character long)
FilterNames(str) == {n \in Names : <<n>> \in PiecesFrom(str, <<>>, {})}

\* ncu.run({upgrade: true, filter}): every listed name of the filter gets the
\* listed version in the section that declares it; nothing else changes.
Upgrade(pkg, filter, listing) ==
  LET new(n) == (CHOOSE i \in 1..Len(listing) : listing[i].name = n)
      hit(n) == n \in FilterNames(filter) /\ \E i \in 1..Len(listing) : listing[i].name = n
  IN  [f \in DOMAIN pkg |->
         IF f \in Sections
         THEN [n \in DOMAIN pkg[f] |->
                 IF hit(n) THEN listing[new(n)].version ELSE pkg[f][n]]
         ELSE pkg[f]]

\* faulty variant: only the first selected name makes it into the filter
FilterOfFirst(sel) == IF sel = <<>> THEN <<>> ELSE <<sel[1].name>>

\* response.selected.map(s => s.name)
FilterOf(sel) == [i \in 1..Len(sel) |-> sel[i].name]

\* filter.join(','): the names with a comma between them (a name is one
\* character here, hence one element of the string)
RECURSIVE join(_)
join(filter) ==
  IF filter = <<>> THEN <<>>
  ELSE IF Len(filter) = 1 THEN <<filter[1]>>
  ELSE <<filter[1], ",">> \o join(Tail(filter))

\* what the user may return from the checkbox prompt: the values of any
\* subset of the choices, in the order shown
Answer(chs, picked) ==
  LET shown == [i \in 1..Len(chs) |-> [value |-> chs[i].value, i |-> i]]
      kept == SelectSeq(shown, LAMBDA c : c.i \in picked)
  IN  [k \in 1..Len(kept) |-> kept[k].value]

\* ------------------------------------------------------------- the files
\* faulty variant: the copy is taken once the upgrade call has written
backupPackageJsonAfterWrite(ok) ==
  /\ bak' = IF ok THEN Upgrade(manifest, join(FilterOf(selected')), upgradedRaw)
            ELSE bak
  /\ backupMade' = ok
  /\ backupTried' = TRUE

\* fs.copyFileSync('package.json', 'package.json.bak') inside try/catch
backupPackageJson(ok) ==
  /\ bak' = IF ok THEN manifest ELSE bak
  /\ backupMade' = ok
  /\ backupTried' = TRUE

\* restoreBackup(): copy the backup over the manifest and delete it, when a
\* backup file exists; a failing copy is caught and changes nothing.
restoreBackup(ok) ==
  IF bak # NoFile /\ ok
  THEN manifest' = bak /\ bak' = NoFile
  ELSE UNCHANGED disk

\* ------------------------------------------------------------- the run
NoOptions == [dryRun |-> FALSE, backup |-> FALSE]

\* no flag given: --no-backup absent leaves the backup enabled
DefaultOptions(r) ==
  IF r = Rev2 THEN [dryRun |-> FALSE, backup |-> TRUE] ELSE NoOptions

OptionSets(r) ==
  IF r = Rev2 THEN [dryRun : BOOLEAN, backup : BOOLEAN] ELSE {NoOptions}

Init ==
  /\ rev \in Revs
  /\ manifest \in Manifests \cup {NoFile}
  /\ registry \in (IF manifest = NoFile THEN {<<>>} ELSE Registries)
  /\ bak = NoFile
  /\ options \in OptionSets(rev)
  /\ pc = "start"
  /\ upgradedRaw = <<>> /\ updates = <<>> /\ choices = <<>>
  /\ prompt = "none" /\ selected = <<>>
  /\ outcome = "running"
  /\ errorReported = FALSE
  /\ installs = 0 /\ installExit = "none"
  /\ upgradeCalls = <<>>
  /\ backupMade = FALSE /\ backupTried = FALSE
  /\ restoreAnswer = "none"
  /\ startManifest = manifest /\ startBak = bak
  /\ mutated = NoFile
  /\ runs = 1

\* return: the run is over
Finish(how) == pc' = "done" /\ outcome' = how

\* faulty variant: every error is taken for a closed prompt
CatchAsBye(exitPrompt) == Finish("Bye") /\ UNCHANGED errorReported

\* the outer catch (error): Rev2 takes a closed prompt for a goodbye, any
\* other error is a critical error; Rev1 reports every error.
Catch(exitPrompt) ==
  IF rev = Rev2 /\ exitPrompt
  THEN Finish("Bye") /\ UNCHANGED errorReported
  ELSE Finish("CriticalError") /\ errorReported' = TRUE

\* if (!fs.existsSync('package.json')) return; then the listing is awaited
Start ==
  /\ pc = "start"
  /\ IF manifest = NoFile THEN Finish("NoManifest")
     ELSE pc' = "resolve" /\ UNCHANGED outcome
  /\ UNCHANGED <<disk, catalogVars, runVars, prompt, selected, errorReported,
                 installs, installExit, upgradeCalls, backupMade, backupTried,
                 restoreAnswer, mutated>>

\* faulty variant: an empty listing is not noticed
NothingToUpdateNever(depNames) == FALSE

\* depNames.length === 0
NothingToUpdate(depNames) == Len(depNames) = 0

\* the listing arrives: nothing to update, or the catalog is built, sorted
\* and turned into choices, and the checkbox prompt is shown
Resolved ==
  /\ pc = "resolve"
  /\ upgradedRaw' = Listing(manifest, registry)
  /\ IF NothingToUpdate(upgradedRaw')
     THEN Finish("UpToDate") /\ UNCHANGED <<updates, choices, prompt>>
     ELSE /\ updates' = Catalog(manifest, upgradedRaw', rev)
          /\ choices' = Choices(updates', rev)
          /\ prompt' = "shown"
          /\ pc' = "prompt"
          /\ UNCHANGED outcome
  /\ UNCHANGED <<disk, runVars, selected, errorReported, installs,
                 installExit, upgradeCalls, backupMade, backupTried, restoreAnswer, mutated>>

\* the listing call rejects (registry or network error)
ResolveFails ==
  /\ pc = "resolve"
  /\ Catch(FALSE)
  /\ UNCHANGED <<disk, catalogVars, runVars, prompt, selected, installs,
                 installExit, upgradeCalls, backupMade, backupTried, restoreAnswer, mutated>>

\* Rev2, after a non-empty selection without --dry-run: the backup when it
\* is enabled, then the filter is built and the upgrade call is awaited.
\* Rev1 goes to the upgrade call at once.
BackupStep(copied) ==
  IF rev = Rev2 /\ options.backup
  THEN backupPackageJson(copied)
  ELSE copied /\ UNCHANGED <<bak, backupMade, backupTried>>

\* faulty variant: --dry-run is ignored
IsDryRunNever(r, opts) == FALSE

\* if (options.dryRun): the flag exists in Rev2 only
IsDryRun(r, opts) == r = Rev2 /\ opts.dryRun

\* faulty variant: a failed backup ends the run
AfterBackupFatal(failed) == IF failed THEN "done" ELSE "upgrade"

\* backupSpinner.succeed(...) or backupSpinner.warn('... Continuing...'):
\* either way the run goes on to the upgrade call
AfterBackup(failed) == "upgrade"

\* faulty variant: an empty selection is not noticed
NothingSelectedNever(sel) == FALSE

\* response.selected.length === 0
NothingSelected(sel) == Len(sel) = 0

\* the user confirms a selection: empty ends the run, a dry run lists it,
\* else the backup is made when enabled and the upgrade call is awaited
Prompted ==
  /\ pc = "prompt"
  /\ prompt' = "answered"
  /\ \E picked \in SUBSET (1..Len(choices)), copied \in BOOLEAN :
       /\ selected' = Answer(choices, picked)
       /\ IF NothingSelected(selected')
          THEN Finish("NoneSelected") /\ UNCHANGED <<bak, backupMade, backupTried, upgradeCalls>>
          ELSE IF IsDryRun(rev, options)
          THEN Finish("DryRun") /\ UNCHANGED <<bak, backupMade, backupTried, upgradeCalls>>
          ELSE /\ BackupStep(copied)
               /\ upgradeCalls' = Append(upgradeCalls, join(FilterOf(selected')))
               /\ pc' = AfterBackup(backupTried' /\ ~backupMade')
               /\ UNCHANGED outcome
  /\ UNCHANGED <<manifest, catalogVars, runVars, errorReported, installs,
                 installExit, restoreAnswer, mutated>>

\* the user closes the checkbox prompt
PromptClosed ==
  /\ pc = "prompt"
  /\ prompt' = "closed"
  /\ Catch(TRUE)
  /\ UNCHANGED <<disk, catalogVars, runVars, selected, installs, installExit,
                 upgradeCalls, backupMade, backupTried, restoreAnswer, mutated>>

\* ncu.run({upgrade: true}) wrote package.json; the install command starts
Upgraded ==
  /\ pc = "upgrade"
  /\ manifest' = Upgrade(manifest, upgradeCalls[Len(upgradeCalls)], upgradedRaw)
  /\ mutated' = manifest'
  /\ installs' = installs + 1
  /\ pc' = "install"
  /\ UNCHANGED <<bak, catalogVars, runVars, prompt, selected, outcome,
                 errorReported, installExit, upgradeCalls, backupMade, backupTried,
                 restoreAnswer>>

\* ncu.run({upgrade: true}) rejects before it writes
UpgradeFails ==
  /\ pc = "upgrade"
  /\ Catch(FALSE)
  /\ UNCHANGED <<disk, catalogVars, runVars, prompt, selected, installs,
                 installExit, upgradeCalls, backupMade, backupTried, restoreAnswer, mutated>>

\* faulty variant: the backup is never deleted
UnlinkedNever(file) == file

\* if (options.backup !== false && fs.existsSync('package.json.bak'))
\*   fs.unlinkSync('package.json.bak')        (Rev2 only)
Unlinked(file) == IF rev = Rev2 /\ options.backup THEN NoFile ELSE file

\* the install command exits 0
Installed ==
  /\ pc = "install"
  /\ installExit' = "zero"
  /\ bak' = Unlinked(bak)
  /\ Finish("Success")
  /\ UNCHANGED <<manifest, catalogVars, runVars, prompt, selected,
                 errorReported, installs, upgradeCalls, backupMade, backupTried,
                 restoreAnswer, mutated>>

\* the install command fails: Rev2 asks whether to restore, Rev1 only says so
InstallFails ==
  /\ pc = "install"
  /\ installExit' = "nonzero"
  /\ IF rev = Rev2 THEN pc' = "restore" /\ UNCHANGED outcome
     ELSE Finish("InstallFailed")
  /\ UNCHANGED <<disk, catalogVars, runVars, prompt, selected, errorReported,
                 installs, upgradeCalls, backupMade, backupTried, restoreAnswer, mutated>>

\* the user answers yes to the restore confirmation
RestoreConfirmed ==
  /\ pc = "restore"
  /\ \E copied \in BOOLEAN :
       /\ (bak = NoFile => copied)
       /\ restoreBackup(copied)
  /\ restoreAnswer' = "yes"
  /\ Finish("RolledBack")
  /\ UNCHANGED <<catalogVars, runVars, prompt, selected, errorReported,
                 installs, installExit, upgradeCalls, backupMade, backupTried, mutated>>

\* faulty variant: the backup is restored whatever the answer
RestoreDeclinedRestores ==
  /\ pc = "restore"
  /\ restoreAnswer' = "no"
  /\ restoreBackup(TRUE)
  /\ Finish("KeptDirty")
  /\ UNCHANGED <<catalogVars, runVars, prompt, selected, errorReported,
                 installs, installExit, upgradeCalls, backupMade, backupTried, mutated>>

\* the user answers no
RestoreDeclined ==
  /\ pc = "restore"
  /\ restoreAnswer' = "no"
  /\ Finish("KeptDirty")
  /\ UNCHANGED <<disk, catalogVars, runVars, prompt, selected, errorReported,
                 installs, installExit, upgradeCalls, backupMade, backupTried, mutated>>

\* the user closes the restore confirmation: the rejection leaves the inner
\* catch and reaches the outer one
RestoreClosed ==
  /\ pc = "restore"
  /\ Catch(TRUE)
  /\ UNCHANGED <<disk, catalogVars, runVars, prompt, selected, installs,
                 installExit, upgradeCalls, backupMade, backupTried, restoreAnswer, mutated>>

\* the program is started again in the same directory
NextRun ==
  /\ pc = "done"
  /\ runs < MaxRuns
  /\ runs' = runs + 1
  /\ options' \in OptionSets(rev)
  /\ startManifest' = manifest /\ startBak' = bak
  /\ pc' = "start"
  /\ upgradedRaw' = <<>> /\ updates' = <<>> /\ choices' = <<>>
  /\ prompt' = "none" /\ selected' = <<>>
  /\ outcome' = "running"
  /\ errorReported' = FALSE
  /\ installs' = 0 /\ installExit' = "none"
  /\ upgradeCalls' = <<>>
  /\ backupMade' = FALSE /\ backupTried' = FALSE
  /\ restoreAnswer' = "none"
  /\ mutated' = NoFile
  /\ UNCHANGED <<rev, registry, disk>>

Next ==
  \/ Start \/ Resolved \/ ResolveFails
  \/ Prompted \/ PromptClosed
  \/ Upgraded \/ UpgradeFails
  \/ Installed \/ InstallFails
  \/ RestoreConfirmed \/ RestoreDeclined \/ RestoreClosed
  \/ NextRun

Spec == Init /\ [][Next]_vars

\* ------------------------------------------------- classifying one pair
\* The characters of the raw strings enumerated exhaustively, and raw
\* strings long enough to hold all three components.
Alphabet == {"0", "1", ".", "^"}

RECURSIVE Strings(_)
Strings(n) ==
  IF n = 0 THEN {<<>>}
  ELSE LET shorter == Strings(n - 1)
       IN  shorter \cup {Append(t, c) : t \in {u \in shorter : Len(u) = n - 1},
                                        c \in Alphabet}

Samples ==
  {<<"^", "1", ".", "2", ".", "0">>, <<"1", ".", "2", ".", "0">>,
   <<"1", ".", "2", ".", "1">>, <<"1", ".", "3", ".", "0">>,
   <<"2", ".", "0", ".", "0">>, <<"1", ".", "2", ".", "1", "-", "0">>,
   <<"~", "1", ".", "2">>, <<"1", "0", ".", "0", ".", "1">>,
   <<"l", "a", "t", "e", "s", "t">>}

RawStrings == Strings(MaxLen) \cup Samples

\* package.json declaring the one dependency "a" with the range cur
OneDependency(cur) ==
  [dependencies |-> [n \in {"a"} |-> cur], devDependencies |-> <<>>,
   optionalDependencies |-> <<>>, other |-> "scripts"]

\* One candidate: any raw range in the manifest, any raw version listed.
InitPair ==
  /\ rev \in Revs
  /\ \E cur \in RawStrings : manifest = OneDependency(cur)
  /\ \E new \in RawStrings : registry = <<[name |-> "a", version |-> new]>>
  /\ bak = NoFile
  /\ options = DefaultOptions(rev)
  /\ pc = "start"
  /\ upgradedRaw = <<>> /\ updates = <<>> /\ choices = <<>>
  /\ prompt = "none" /\ selected = <<>>
  /\ outcome = "running"
  /\ errorReported = FALSE
  /\ installs = 0 /\ installExit = "none"
  /\ upgradeCalls = <<>>
  /\ backupMade = FALSE /\ backupTried = FALSE
  /\ restoreAnswer = "none"
  /\ startManifest = manifest /\ startBak = bak
  /\ mutated = NoFile
  /\ runs = 1

NextPair == Start \/ Resolved \/ PromptClosed

SpecPair == InitPair /\ [][NextPair]_vars

\* ================================================================ claims
\* The risk tier of the specification for a type of the code: 'other'
\* (Rev2), a null diff and the unparsed early return (Rev1) are the
\* indeterminate tier; the pre-release types of semver.diff other than
\* premajor have no tier of their own and are indeterminate as well.
Tier(type) ==
  IF type \in {"patch", "minor", "premajor", "major"} THEN type
  ELSE "indeterminate"

\* patch < minor < premajor < major < indeterminate
TierRank(tier) ==
  CASE tier = "patch" -> 0 [] tier = "minor" -> 1 [] tier = "premajor" -> 2
    [] tier = "major" -> 3 [] tier = "indeterminate" -> 4

\* the names package.json declares under dependencies or devDependencies
Declared(pkg) == DOMAIN pkg.dependencies \cup DOMAIN pkg.devDependencies

Reported == {upgradedRaw[k].name : k \in 1..Len(upgradedRaw)}

\* the place of a name in the resolver's listing
ReportedAt(name) == CHOOSE k \in 1..Len(upgradedRaw) : upgradedRaw[k].name = name

\* package.json as the upgrade call of this run leaves it
MutatedManifest == Upgrade(startManifest, join(FilterOf(selected)), upgradedRaw)

\* C1 (as claimed): in every revision, every candidate handed to the prompt
\* is pre-checked exactly when its tier is patch or minor.
C1_DefaultSelectedEveryRevision ==
  \A i \in 1..Len(choices) :
    choices[i].checked = (Tier(updates[i].type) \in {"patch", "minor"})

\* C2 (as claimed): a run that ends RolledBack has the manifest it started
\* with and no backup file, whatever the backup flag and the copy did.
C2_ConfirmedRestoreRollsBack ==
  outcome = "RolledBack" => (manifest = startManifest /\ bak = NoFile)

\* C3: after a failed install and a declined restore the run ends KeptDirty
\* with the mutated manifest in place and the backup of this run on disk;
\* without a backup of this run the backup file is as it was.
C3_DeclineKeepsDirty ==
  outcome = "KeptDirty" =>
    /\ installExit = "nonzero" /\ restoreAnswer = "no"
    /\ manifest = MutatedManifest /\ manifest # startManifest
    /\ (backupMade => bak = startManifest)
    /\ (~backupMade => bak = startBak)

C3_Witness ==
  /\ outcome = "KeptDirty" /\ restoreAnswer = "no" /\ backupMade
  /\ bak = startManifest /\ manifest # startManifest

\* C4 (as claimed, for the runs of revision 1.3.1 whose manifest the
\* upgrade call did rewrite): every such finished run ended in Success,
\* RolledBack or KeptDirty, the last two after the user answered the
\* restore confirmation.
C4_NoSilentPartialState ==
  (rev = Rev2 /\ pc = "done" /\ mutated # NoFile) =>
    /\ outcome \in {"Success", "RolledBack", "KeptDirty"}
    /\ (outcome # "Success" => restoreAnswer # "none")

C6_PromptAbortIsClean ==
  prompt = "closed" =>
    /\ outcome = "Bye" /\ ~errorReported
    /\ manifest = startManifest /\ bak = startBak
    /\ installs = 0 /\ upgradeCalls = <<>>

\* the catalog is in ascending tier order, equal tiers in the resolver's
\* order, and the choices are shown in the catalog's order
SortedStable ==
  /\ Len(choices) = Len(updates)
  /\ \A i \in 1..Len(updates) : choices[i].value.name = updates[i].name
  /\ \A i, j \in 1..Len(updates) :
       i < j =>
         \/ TierRank(Tier(updates[i].type)) < TierRank(Tier(updates[j].type))
         \/ /\ Tier(updates[i].type) = Tier(updates[j].type)
            /\ ReportedAt(updates[i].name) < ReportedAt(updates[j].name)

\* C7 (as claimed): the catalog shown to the user is stable-sorted by tier,
\* whichever revision runs.
C7_SortedEveryRevision == SortedStable

\* C7 (amended): revision 1.3.1 shows the catalog stable-sorted by tier
\* (patch < minor < premajor < major < indeterminate, ties in the
\* resolver's order).
C7_SortedStableRev2 == rev = Rev2 => SortedStable

\* three candidates, two of one tier reported around one of a lower tier:
\* the sort moved the lower tier to the front and kept the two in order
C7_Witness ==
  /\ rev = Rev2 /\ prompt = "shown" /\ Len(updates) = 3
  /\ updates[1].type = "patch" /\ updates[2].type = "major"
  /\ updates[3].type = "major"
  /\ ReportedAt(updates[2].name) = 1 /\ ReportedAt(updates[1].name) = 2
  /\ ReportedAt(updates[3].name) = 3

\* what the classifier is to give for two coerced versions; identical
\* versions are 'other' in Rev2 and the null diff in Rev1 (both the
\* indeterminate tier)
ExpectedType(c, n, r) ==
  IF c.major # n.major THEN "major"
  ELSE IF c.minor # n.minor THEN "minor"
  ELSE IF c.patch # n.patch THEN "patch"
  ELSE IF r = Rev2 THEN "other" ELSE "null"

Coerces(u) == coerce(u.current) # NoSemver /\ coerce(u.upgrade) # NoSemver

\* C8: when both raw strings coerce, the type is major, minor or patch by
\* the first component that differs, and indeterminate when none does.
C8_ClassifiedByFirstDifference ==
  \A i \in 1..Len(updates) :
    Coerces(updates[i]) =>
      updates[i].type =
        ExpectedType(coerce(updates[i].current), coerce(updates[i].upgrade), rev)

C8_Witness ==
  /\ prompt = "shown" /\ Len(updates) = 1 /\ updates[1].type = "patch"
  /\ updates[1].current = <<"^", "1", ".", "2", ".", "0">>
  /\ updates[1].upgrade = <<"1", ".", "2", ".", "1">>

\* C9: a candidate with a string that does not coerce is indeterminate,
\* and the run goes on to the prompt with it in the choices, unchecked.
C9_UnparseableIsIndeterminate ==
  \A k \in 1..Len(upgradedRaw) :
    (\/ coerce(currentVersionRaw(startManifest, upgradedRaw[k].name)) = NoSemver
     \/ coerce(upgradedRaw[k].version) = NoSemver) =>
      /\ prompt # "none"
      /\ \E i \in 1..Len(choices) :
           /\ choices[i].value.name = upgradedRaw[k].name
           /\ updates[i].name = upgradedRaw[k].name
           /\ updates[i].type = (IF rev = Rev2 THEN "other" ELSE "unparsed")
           /\ ~choices[i].checked

C9_Witness ==
  /\ prompt = "shown" /\ Len(choices) = 1 /\ ~choices[1].checked
  /\ coerce(updates[1].current) = NoSemver
  /\ coerce(updates[1].upgrade) # NoSemver

\* C10 (as claimed): the catalog holds exactly the names both declared
\* under dependencies or devDependencies and reported, so it is never
\* longer than the declared names are many.
C10_CatalogIsIntersection ==
  prompt # "none" =>
    /\ {updates[i].name : i \in 1..Len(updates)} = Declared(startManifest) \cap Reported
    /\ Len(updates) = Cardinality(Declared(startManifest) \cap Reported)
    /\ Len(updates) <= Cardinality(Declared(startManifest))

\* C10 (amended): the catalog holds exactly one candidate for each name the
\* resolver reports; a reported name declared under neither dependencies
\* nor devDependencies is a candidate too, with the current version 0.0.0.
C10_OnePerReportedName ==
  prompt # "none" =>
    /\ Len(updates) = Len(upgradedRaw)
    /\ {updates[i].name : i \in 1..Len(updates)} = Reported
    /\ \A i \in 1..Len(updates) :
         updates[i].name \notin Declared(startManifest) =>
           updates[i].current = Sentinel

C10_Witness ==
  /\ prompt = "shown"
  /\ \E i \in 1..Len(updates) :
       /\ updates[i].name \notin Declared(startManifest)
       /\ updates[i].current = Sentinel
  /\ Len(updates) > Cardinality(Declared(startManifest) \cap Reported)

\* the names of the confirmed selection
SelectedNames == {selected[i].name : i \in 1..Len(selected)}

\* the version the catalog proposes for a candidate
Proposed(name) == updates[CHOOSE i \in 1..Len(updates) : updates[i].name = name].upgrade

C12_EmptySelectionTouchesNothing ==
  (prompt = "answered" /\ selected = <<>>) =>
    /\ pc = "done" /\ outcome = "NoneSelected" /\ ~errorReported
    /\ manifest = startManifest /\ bak = startBak
    /\ ~backupMade /\ upgradeCalls = <<>> /\ mutated = NoFile
    /\ installs = 0 /\ installExit = "none"

\* nothing picked among several choices, the backup enabled
C12_Witness ==
  /\ prompt = "answered" /\ selected = <<>> /\ outcome = "NoneSelected"
  /\ rev = Rev2 /\ options.backup /\ ~options.dryRun /\ Len(choices) = 2

\* the resolver has nothing to report for the manifest of this run
ZeroCandidates ==
  startManifest # NoFile /\ Listing(startManifest, registry) = <<>>

\* C13: in a run for which the resolver reports no candidate, no prompt is
\* shown and no backup, upgrade call or install is ever reached; when the
\* listing has arrived the run is over with the up-to-date outcome and no
\* error reported.
C13_ZeroCandidatesUpToDate ==
  /\ ZeroCandidates =>
       /\ prompt = "none" /\ choices = <<>>
       /\ manifest = startManifest /\ bak = startBak
       /\ ~backupMade /\ upgradeCalls = <<>> /\ mutated = NoFile
       /\ installs = 0 /\ installExit = "none"
       /\ (pc = "done" /\ ~errorReported) => outcome = "UpToDate"
       /\ pc \in {"start", "resolve", "done"}
  /\ outcome = "UpToDate" => (ZeroCandidates /\ ~errorReported)

\* a run started on a manifest an earlier run brought up to date
C13_Witness ==
  /\ outcome = "UpToDate" /\ registry # <<>> /\ runs = 2
  /\ startBak = NoFile

\* C14: with the backup enabled the copy is attempted before the upgrade
\* call is awaited, while the manifest is still as the run found it; the
\* manifest is never written in such a run without that attempt, and a
\* backup file made by the run holds the manifest of the start of the run.
C14_BackupBeforeMutation ==
  /\ (rev = Rev2 /\ options.backup /\ pc = "upgrade") =>
       (backupTried /\ manifest = startManifest /\ mutated = NoFile)
  /\ (rev = Rev2 /\ options.backup /\ mutated # NoFile) => backupTried
  /\ (backupMade /\ bak # NoFile) => bak = startManifest
  /\ backupMade => backupTried
  /\ backupTried => (rev = Rev2 /\ options.backup)

\* a second run, after one that kept its mutated manifest and its backup:
\* the backup file now holds the manifest the second run started with
C14_Witness ==
  /\ runs = 2 /\ startBak # NoFile /\ startBak # startManifest
  /\ backupMade /\ bak = startManifest
  /\ mutated # NoFile /\ manifest = mutated /\ manifest # bak

\* C15: after a backup copy that failed the run goes on as after one that
\* succeeded: the upgrade call is made with the selection and awaited, the
\* manifest is written and the install invoked; no error is reported for
\* the backup and the run ends only where a run with a backup ends.
C15_FailedBackupIsNotFatal ==
  (backupTried /\ ~backupMade) =>
    /\ pc \in {"upgrade", "install", "restore", "done"}
    /\ Len(upgradeCalls) = 1 /\ FilterNames(upgradeCalls[1]) = SelectedNames
    /\ pc \in {"upgrade", "install", "restore"} =>
         (outcome = "running" /\ ~errorReported /\ bak = startBak)
    /\ pc \in {"install", "restore"} =>
         (installs = 1 /\ mutated # NoFile /\ manifest = mutated)
    /\ pc = "done" =>
         \/ outcome \in {"Success", "RolledBack", "KeptDirty", "Bye"}
              /\ installs = 1 /\ mutated # NoFile /\ ~errorReported
         \/ outcome = "CriticalError" /\ mutated = NoFile /\ installs = 0

\* the copy failed, the manifest was written and the install succeeded
C15_Witness ==
  /\ backupTried /\ ~backupMade /\ options.backup
  /\ outcome = "Success" /\ installs = 1
  /\ manifest = mutated /\ manifest # startManifest

\* the run is over without a listing: it had a manifest, showed no prompt
\* and did not find everything up to date
ResolutionFailed ==
  pc = "done" /\ startManifest # NoFile /\ prompt = "none" /\ outcome # "UpToDate"

\* C16: a run whose listing call failed ended with the critical error
\* reported and nothing else done: no listing kept, no candidate classified,
\* no choice built, no prompt, the manifest and the backup file as they
\* were, no backup attempt, no upgrade call and no install.
C16_ResolutionFailureAborts ==
  ResolutionFailed =>
    /\ outcome = "CriticalError" /\ errorReported
    /\ upgradedRaw = <<>> /\ updates = <<>> /\ choices = <<>> /\ selected = <<>>
    /\ manifest = startManifest /\ bak = startBak
    /\ ~backupTried /\ ~backupMade /\ upgradeCalls = <<>> /\ mutated = NoFile
    /\ installs = 0 /\ installExit = "none" /\ restoreAnswer = "none"

\* the listing failed although the registry had candidates, in a second
\* run that found a backup file left by the first
C16_Witness ==
  /\ ResolutionFailed /\ outcome = "CriticalError" /\ rev = Rev2
  /\ ~ZeroCandidates /\ options.backup /\ bak # NoFile /\ bak = startBak

\* the restore confirmation of revision 1.3.1 was closed without an answer
RestoreCancelled ==
  rev = Rev2 /\ pc = "done" /\ installExit = "nonzero" /\ restoreAnswer = "none"

C18_RestoreWritesThisRunsStart ==
  (restoreAnswer = "yes" /\ mutated # NoFile /\ manifest # mutated) =>
    manifest = startManifest

\* C19: a run with --dry-run never changes the manifest or the backup
\* file and never attempts a backup, an upgrade call or an install; once a
\* non-empty selection is confirmed it is over, having listed the selection.
C19_DryRunHasNoEffect ==
  (rev = Rev2 /\ options.dryRun) =>
    /\ manifest = startManifest /\ bak = startBak
    /\ ~backupTried /\ ~backupMade /\ upgradeCalls = <<>> /\ mutated = NoFile
    /\ installs = 0 /\ installExit = "none" /\ restoreAnswer = "none"
    /\ (prompt = "answered" /\ selected # <<>>) =>
         (pc = "done" /\ outcome = "DryRun" /\ ~errorReported)

\* a dry run with two packages selected and the backup enabled, in a
\* directory where an earlier run left a backup file
C19_Witness ==
  /\ outcome = "DryRun" /\ Len(selected) = 2 /\ options.backup
  /\ startBak # NoFile /\ bak = startBak /\ manifest = startManifest

\* the difference types semver.diff has for pre-release versions
PrereleaseTypes == {"premajor", "preminor", "prepatch", "prerelease"}

\* C20: every type revision 1.3.1 gives a candidate is a value of
\* riskOrder, so its index there is not negative; and no candidate of
\* either revision gets a pre-release type, the versions being coerced to
\* MAJOR.MINOR.PATCH before the diff.
C20_TypesWithinRiskOrder ==
  \A i \in 1..Len(updates) :
    /\ rev = Rev2 =>
         /\ updates[i].type \in {riskOrder[k] : k \in 1..Len(riskOrder)}
         /\ indexOf(updates[i].type) >= 0
    /\ updates[i].type \notin PrereleaseTypes
    /\ Tier(updates[i].type) # "premajor"

\* a listed pre-release of the next patch: a patch once coerced, where the
\* diff of the raw strings would be a prepatch
C20_Witness ==
  /\ rev = Rev2 /\ prompt = "shown" /\ Len(updates) = 1
  /\ updates[1].current = <<"1", ".", "2", ".", "0">>
  /\ updates[1].upgrade = <<"1", ".", "2", ".", "1", "-", "0">>
  /\ updates[1].type = "patch" /\ indexOf(updates[1].type) = 0
  /\ diff(updates[1].current, updates[1].upgrade) = "prepatch"

TypeOK ==
  /\ rev \in Revs
  /\ pc \in {"start", "resolve", "prompt", "upgrade", "install", "restore", "done"}
  /\ runs \in 1..MaxRuns
====
